---- MODULE Spec2Model ----
(***************************************************************************)
(* A model of tgv's main application object (src/src/app.rs): the control  *)
(* loop App::run, App::draw, App::close and the Widget::render of &App.    *)
(*                                                                         *)
(* The controller (crate::states::State) is not part of src/; its          *)
(* operations are modelled from the specification (sections 3, 4.3, 4.4,   *)
(* 6 and 7) and are marked as such where they are defined.  The terminal   *)
(* (ratatui::Terminal) and the event source (crossterm::event::read) are   *)
(* the environment: the terminal keeps the area of the last frame it drew  *)
(* and re-reads the backend's size at the start of every draw.             *)
(***************************************************************************)
EXTENDS Integers, Sequences, FiniteSets, TLC

----------------------------------------------------------------------------
(* Bounds of the model *)

\* iterations of the main loop that are explored
MaxIters == 2
\* resizes of the terminal by the user during one run
MaxResizes == 1
\* startup operations in settings.initial_state_messages
MaxMessages == 2
\* characters typed into the command register
MaxRegister == 1
\* entries the bounded ErrorLog keeps before evicting the oldest
ErrorLogCapacity == 1
MaxGeneration == 3

----------------------------------------------------------------------------
(* Program constants *)

MIN_AREA_WIDTH == 10
MIN_AREA_HEIGHT == 6
\* State::MAX_ZOOM_TO_DISPLAY_ALIGNMENTS (read at app.rs:154, set in State):
\* the model only needs it to lie above the zoom of 2
MAX_ZOOM_TO_DISPLAY_ALIGNMENTS == 32

----------------------------------------------------------------------------
(* Value domains *)

InputMode == {"Normal", "Command", "Help"}

\* a Rect is represented by its width and height; each dimension takes a
\* value below and a value above the minimum usable size
Widths == {MIN_AREA_WIDTH - 1, MIN_AREA_WIDTH + 2}
Heights == {MIN_AREA_HEIGHT - 1, MIN_AREA_HEIGHT + 2}
\* the sizes of the terminal: too narrow, too low, and large enough
Sizes ==
    [width : Widths, height : Heights]
        \ {[width |-> MIN_AREA_WIDTH - 1, height |-> MIN_AREA_HEIGHT - 1]}
\* Rect::default(), the frame area of a State that never saw a frame
ZeroArea == [width |-> 0, height |-> 0]

\* payload kinds that have a cache slot in state.data
Kinds == {"alignment", "sequence", "track"}

Zooms == {1, 2, MAX_ZOOM_TO_DISPLAY_ALIGNMENTS, MAX_ZOOM_TO_DISPLAY_ALIGNMENTS + 1}

\* What a viewport-changing operation of the main loop ends with: the zoom
\* and the payloads that are cached once its fetches have completed
ViewInputs ==
    { [zoom |-> 1, data |-> Kinds],
      [zoom |-> MAX_ZOOM_TO_DISPLAY_ALIGNMENTS + 1, data |-> {}] }

\* Startup operations, by what handling them runs into:
\*   "goto"  establishes the contig context and the viewing window,
\*   "bad"   hits a recoverable condition (an ErrorLog entry, nothing else),
\*   "fatal" hits a Fatal condition (handle returns Err).
StartupOps == {"goto", "bad", "fatal"}

RECURSIVE SeqsUpTo(_, _)
SeqsUpTo(S, n) ==
    IF n = 0 THEN {<<>>}
    ELSE LET shorter == SeqsUpTo(S, n - 1)
         IN  shorter \cup {Append(q, x) : q \in shorter, x \in S}

\* Keys, by the operation the interpreter maps them to
Keys == {"pan", "zoom", "colon", "help", "quit", "char", "enter", "esc", "other"}
\* what handling the operation of a key runs into
Conds == {"ok", "recoverable", "fatal"}

----------------------------------------------------------------------------
VARIABLES
    settings,         \* self.state.settings: test_mode, initial_state_messages, bam_path, reference
    state,            \* self.state: the controller
    pc,               \* position of App::run
    result,           \* how App::run ended: "none" while running
    frame_area,       \* local of run: the frame area read at the top of the iteration
    last_frame_mode,  \* local of run
    term_size,        \* the terminal's actual size (the backend's)
    viewport,         \* the terminal's frame area: terminal.get_frame().area()
    resizes,          \* resizes of the terminal so far
    resize_pending,   \* a Resize event waits in the event queue
    iters,            \* iterations of the loop started so far
    steps,            \* the steps of the current iteration, in order
    rendered,         \* what the last draw rendered
    cleared,          \* terminal.clear() was called in the current iteration
    last_event,       \* the last event read and what its handling ran into
    last_correction,  \* whether the last self-correction used the terminal's actual area
    closed,           \* state.close() has been performed
    cache,            \* the controller's data cache with its generations
    fetches           \* the fetches of the data layer: in flight, and their history

vars == <<settings, state, pc, result, frame_area, last_frame_mode, term_size,
          viewport, resizes, resize_pending, iters, steps, rendered, cleared,
          last_event, last_correction, closed, cache, fetches>>

termVars == <<term_size, viewport, resizes, resize_pending>>

cacheVars == <<cache, fetches>>

----------------------------------------------------------------------------
(* The controller, modelled from the specification *)

\* Option values: None is the empty sequence, Some(x) the sequence of x
None == <<>>
Some(x) == <<x>>

\* State::new(settings): no contig context, no window, empty cache slots.
\* A window is represented by the frame area it was last clamped against.
NewState ==
    [ exit             |-> FALSE,
      window           |-> None,
      contig           |-> FALSE,
      cytobands        |-> FALSE,
      input_mode       |-> "Normal",
      command_register |-> 0,
      errors           |-> <<>>,
      frame_area       |-> ZeroArea,
      zoom             |-> 1,
      data             |-> {} ]

\* State::initialized(): the viewing window has been established
initialized(s) == s.window # None

\* ErrorLog: append-only, bounded, evicting the oldest entry
add_error(s, e) ==
    LET log == Append(s.errors, e)
    IN  [s EXCEPT !.errors = IF Len(log) > ErrorLogCapacity THEN Tail(log) ELSE log]

\* State::update_frame_area
update_frame_area(s, area) == [s EXCEPT !.frame_area = area]

\* State::self_correct_viewing_window: clamps the window against the frame
\* area the controller has recorded
self_correct_viewing_window(s) ==
    IF initialized(s) THEN [s EXCEPT !.window = Some(s.frame_area)] ELSE s

\* State::handle: the operations are applied in order; a recoverable failure
\* becomes an ErrorLog entry and the batch goes on, a Fatal one is returned.
RECURSIVE handle(_, _)
handle(s, messages) ==
    IF messages = <<>> THEN [state |-> s, ok |-> TRUE]
    ELSE LET op == Head(messages)
         IN  CASE op = "goto" ->
                    handle([s EXCEPT !.window = Some(s.frame_area), !.contig = TRUE],
                           Tail(messages))
               [] op = "bad" ->
                    handle(add_error(s, "user"), Tail(messages))
               [] OTHER -> [state |-> s, ok |-> FALSE]

\* State::handle_key_event: the interpreter of section 4.3 for the current
\* input mode, then handle of the resulting operation.  cond is what the
\* operation runs into; z and d are the zoom and the payloads it ends with.
handle_key_event(s, key, cond, z, d) ==
    LET Ok(t) == [state |-> t, ok |-> TRUE]
        \* a viewport-changing operation: moved is the state with the new
        \* viewport; the fetch it starts fills the slots, or fails and
        \* leaves them as they are
        Operate(moved, kind) ==
            CASE cond = "ok" -> Ok([moved EXCEPT !.data = d])
              [] cond = "recoverable" -> Ok(add_error(moved, kind))
              [] OTHER -> [state |-> s, ok |-> FALSE]
    IN  CASE s.input_mode = "Help" -> Ok([s EXCEPT !.input_mode = "Normal"])
          [] s.input_mode = "Normal" ->
                CASE key = "pan" -> Operate(s, "data")
                  [] key = "zoom" -> Operate([s EXCEPT !.zoom = z], "data")
                  [] key = "colon" -> Ok([s EXCEPT !.input_mode = "Command"])
                  [] key = "help" -> Ok([s EXCEPT !.input_mode = "Help"])
                  [] key = "quit" -> Ok([s EXCEPT !.exit = TRUE])
                  [] OTHER -> Ok(s)
          [] OTHER ->
                CASE key = "char" ->
                        Ok([s EXCEPT !.command_register =
                               IF @ < MaxRegister THEN @ + 1 ELSE @])
                  [] key = "enter" ->
                        \* submit: the register is cleared and the mode left;
                        \* a command that does not parse, or a jump out of
                        \* range, is logged and changes nothing else
                        LET left == [s EXCEPT !.input_mode = "Normal",
                                              !.command_register = 0]
                        IN  CASE cond = "ok" -> Ok([left EXCEPT !.zoom = z, !.data = d])
                              [] cond = "recoverable" -> Ok(add_error(left, "user"))
                              [] OTHER -> [state |-> s, ok |-> FALSE]
                  [] key = "esc" ->
                        Ok([s EXCEPT !.input_mode = "Normal", !.command_register = 0])
                  [] OTHER -> Ok(s)

\* What the handling of a key actually runs into: only an operation that
\* moves the viewport or submits a command can fail
runs_into(s, key, cond) ==
    IF \/ (s.input_mode = "Normal" /\ key \in {"pan", "zoom"})
       \/ (s.input_mode = "Command" /\ key = "enter")
    THEN cond ELSE "ok"

\* ViewingWindow::is_basewise: one base per column
is_basewise(zoom) == zoom = 1

----------------------------------------------------------------------------
(* The data cache and its generations, modelled from the specification *)

\* The Kinds whose fetches are followed.  The cache treats every Kind alike
\* and each by itself, so two of them show a Kind on its own and one Kind
\* beside another.
FetchKinds == {"alignment", "sequence"}

\* A FetchRequest, as far as the cache looks at it: its Kind and the
\* generation of the viewport change that issued it
Request(kind, generation) == [kind |-> kind, generation |-> generation]

\* The cache of a new controller.  generation counts the viewport changes;
\* latest is the generation last registered for a Kind; a slot holds 0 for
\* no payload, else the generation of the fetch its payload came from.
NewCache ==
    [ generation |-> 0,
      latest     |-> [k \in FetchKinds |-> 0],
      slot       |-> [k \in FetchKinds |-> 0],
      errors     |-> <<>> ]

\* no fetch issued yet
NoFetches == [inflight |-> {}, registered |-> {}, succeeded |-> {}]

\* needs_fetch: the slot is empty or its payload does not cover the region
needs_fetch(c, kind, covered) == c.slot[kind] = 0 \/ ~covered

\* record_fetch_started: the generation of the request becomes the latest
\* one recorded for its Kind
record_fetch_started(c, request) ==
    [c EXCEPT !.latest[request.kind] = request.generation]

\* apply_fetch_result, had it applied every result it is given
apply_fetch_result_of_any_generation(c, request, ok) ==
    IF ok
    THEN [c EXCEPT !.slot[request.kind] = request.generation]
    ELSE LET log == Append(c.errors, request.kind)
         IN  [c EXCEPT !.errors =
                  IF Len(log) > ErrorLogCapacity THEN Tail(log) ELSE log]

\* apply_fetch_result: a result older than the latest generation recorded
\* for its Kind is discarded; a success replaces the slot; a failure leaves
\* the slot and is logged with its Kind
apply_fetch_result(c, request, ok) ==
    IF request.generation < c.latest[request.kind]
    THEN c
    ELSE IF ok
    THEN [c EXCEPT !.slot[request.kind] = request.generation]
    ELSE LET log == Append(c.errors, request.kind)
         IN  [c EXCEPT !.errors =
                  IF Len(log) > ErrorLogCapacity THEN Tail(log) ELSE log]

----------------------------------------------------------------------------
(* Widget::render for &App (app.rs:111-205) *)

\* What one render call does: the bands it paints, and whether it panics.
\* The painting routines are external; a band is named after its routine.
Nothing == [bands |-> {}, panic |-> FALSE]

\* alignment_bands without the limit on the zoom
alignment_bands_at_any_zoom(s, set) ==
    IF set.bam_path /\ "alignment" \in s.data
    THEN {"coverage", "alignment"} ELSE {}

\* lines 153-164: coverage and alignment, from the one alignment payload
alignment_bands(s, set) ==
    IF set.bam_path /\ s.zoom <= MAX_ZOOM_TO_DISPLAY_ALIGNMENTS
    THEN (IF "alignment" \in s.data THEN {"coverage", "alignment"} ELSE {})
    ELSE {}

\* sequence_band with the 2x routine at every zoom that is not base-wise
sequence_band_2x_unless_basewise(s) ==
    IF is_basewise(s.zoom)
    THEN (IF "sequence" \in s.data THEN {"sequence"} ELSE {})
    ELSE (IF "sequence" \in s.data THEN {"sequence_at_2x"} ELSE {})

\* lines 167-182: the sequence band
sequence_band(s) ==
    IF is_basewise(s.zoom)
    THEN (IF "sequence" \in s.data THEN {"sequence"} ELSE {})
    ELSE IF s.zoom = 2
    THEN (IF "sequence" \in s.data THEN {"sequence_at_2x"} ELSE {})
    ELSE {}

\* lines 184-195: the track band
track_band(s) ==
    IF "track" \in s.data THEN {"track"} ELSE {}

\* reference_bands with the track band outside the test of the reference
reference_bands_track_always(s, set) ==
    (IF set.reference THEN sequence_band(s) ELSE {}) \cup track_band(s)

\* lines 166-196: what is painted only with a reference configured
reference_bands(s, set) ==
    IF set.reference THEN sequence_band(s) \cup track_band(s) ELSE {}

\* lines 138-202: the bands of a frame that is not the help screen
frame_bands(s, set) ==
    (IF s.cytobands THEN {"cytobands"} ELSE {})
    \cup {"coordinates"}
    \cup alignment_bands(s, set)
    \cup reference_bands(s, set)
    \cup (IF s.input_mode = "Command" THEN {"console"} ELSE {})
    \cup {"error"}

\* render_frame, had it unwrapped the payloads as it unwraps the context
render_frame_unwrapping_payloads(s, set) ==
    IF s.input_mode = "Help"
    THEN [bands |-> {"help"}, panic |-> FALSE]
    ELSE IF ~s.contig \/ ~initialized(s) \/ s.data # Kinds
    THEN [bands |-> {}, panic |-> TRUE]
    ELSE [bands |-> frame_bands(s, set), panic |-> FALSE]

\* render_frame, had it taken the context before the test of the mode
render_frame_context_first(s, set) ==
    IF ~s.contig \/ ~initialized(s)
    THEN [bands |-> {}, panic |-> TRUE]
    ELSE IF s.input_mode = "Help"
    THEN [bands |-> {"help"}, panic |-> FALSE]
    ELSE [bands |-> frame_bands(s, set), panic |-> FALSE]

\* lines 117-205: what render paints once the area is large enough
render_frame(s, set) ==
    IF s.input_mode = "Help"
    THEN [bands |-> {"help"}, panic |-> FALSE]
    ELSE IF ~s.contig \/ ~initialized(s)
    THEN \* contig_length().unwrap(), viewing_window().unwrap(), viewing_region().unwrap()
         [bands |-> {}, panic |-> TRUE]
    ELSE [bands |-> frame_bands(s, set), panic |-> FALSE]

\* render without the check of the minimum area
render_without_minimum(s, set, area) == render_frame(s, set)

\* lines 112-115, then the frame
render(s, set, area) ==
    IF area.width < MIN_AREA_WIDTH \/ area.height < MIN_AREA_HEIGHT
    THEN Nothing
    ELSE render_frame(s, set)

----------------------------------------------------------------------------
(* App::run (app.rs:39-93), one action per step of the loop *)

\* The loop is explored with both data sources configured; SpecRender
\* explores render with every combination of them.
Init ==
    /\ settings \in [ test_mode : BOOLEAN,
                      initial_state_messages : SeqsUpTo(StartupOps, MaxMessages),
                      bam_path : {TRUE},
                      reference : {TRUE} ]
    /\ state = NewState
    /\ pc = "while"
    /\ result = "none"
    /\ frame_area = ZeroArea
    /\ last_frame_mode = "Normal"
    /\ term_size \in Sizes
    /\ viewport = term_size
    /\ resizes = 0
    /\ resize_pending = 0
    /\ iters = 0
    /\ steps = <<>>
    /\ rendered = Nothing
    /\ cleared = FALSE
    /\ last_event = "none"
    /\ last_correction = "none"
    /\ closed = FALSE
    /\ cache = NewCache
    /\ fetches = NoFetches

\* run returns: Ok(()) at line 92, or the Err that `?` propagates
Return(r) ==
    /\ pc' = "returned"
    /\ result' = r

\* RunWhile, had the loop not tested the exit flag
RunWhile_IgnoresExit ==
    /\ pc = "while"
    /\ iters < MaxIters
    /\ pc' = "area"
    /\ iters' = iters + 1
    /\ steps' = <<>>
    /\ cleared' = FALSE
    /\ UNCHANGED <<settings, state, result, frame_area, last_frame_mode,
                   termVars, rendered, last_event, last_correction, closed, cacheVars>>

\* line 42: while !self.state.exit
RunWhile ==
    /\ pc = "while"
    /\ ~state.exit => iters < MaxIters
    /\ IF state.exit
       THEN Return("Ok") /\ UNCHANGED <<iters, steps, cleared>>
       ELSE /\ pc' = "area"
            /\ iters' = iters + 1
            /\ steps' = <<>>
            /\ cleared' = FALSE
            /\ UNCHANGED result
    /\ UNCHANGED <<settings, state, frame_area, last_frame_mode, termVars,
                   rendered, last_event, last_correction, closed, cacheVars>>

\* lines 43-44
RunUpdateFrameArea ==
    /\ pc = "area"
    /\ frame_area' = viewport
    /\ state' = update_frame_area(state, viewport)
    /\ steps' = Append(steps, "area")
    /\ pc' = "init"
    /\ UNCHANGED <<settings, result, last_frame_mode, termVars, iters, rendered,
                   cleared, last_event, last_correction, closed, cacheVars>>

\* lines 46-52
RunInitialize ==
    /\ pc = "init"
    /\ IF initialized(state)
       THEN /\ pc' = "draw"
            /\ UNCHANGED <<state, steps, result>>
       ELSE LET r == handle(state, settings.initial_state_messages)
            IN  /\ state' = r.state
                /\ steps' = Append(steps, "init")
                /\ IF r.ok
                   THEN pc' = "draw" /\ UNCHANGED result
                   ELSE Return("Err")
    /\ UNCHANGED <<settings, frame_area, last_frame_mode, termVars, iters,
                   rendered, cleared, last_event, last_correction, closed, cacheVars>>

\* App::draw, lines 96-101, called with the frame of terminal.draw
draw(area) ==
    IF ~initialized(state)
    THEN [bands |-> {}, panic |-> TRUE]
    ELSE render(state, settings, area)

\* RunDraw, had drawing a frame below the minimum size logged an error
RunDraw_LogsSmallArea ==
    /\ pc = "draw"
    /\ viewport' = term_size
    /\ rendered' = draw(term_size)
    /\ state' = IF rendered' = Nothing THEN add_error(state, "display") ELSE state
    /\ steps' = Append(steps, "draw")
    /\ IF rendered'.panic
       THEN pc' = "panicked" /\ result' = "Panic"
       ELSE pc' = "events" /\ UNCHANGED result
    /\ UNCHANGED <<settings, frame_area, last_frame_mode, term_size,
                   resizes, resize_pending, iters, cleared, last_event,
                   last_correction, closed, cacheVars>>

\* lines 54-58: terminal.draw takes the backend's size as the frame area,
\* then runs the closure
RunDraw ==
    /\ pc = "draw"
    /\ viewport' = term_size
    /\ rendered' = draw(term_size)
    /\ steps' = Append(steps, "draw")
    /\ IF rendered'.panic
       THEN pc' = "panicked" /\ result' = "Panic"
       ELSE pc' = "events" /\ UNCHANGED result
    /\ UNCHANGED <<settings, state, frame_area, last_frame_mode, term_size,
                   resizes, resize_pending, iters, cleared, last_event,
                   last_correction, closed, cacheVars>>

\* line 61: no event is read in test mode
RunSkipEvents ==
    /\ pc = "events"
    /\ settings.test_mode
    /\ pc' = "refresh"
    /\ UNCHANGED <<settings, state, result, frame_area, last_frame_mode,
                   termVars, iters, steps, rendered, cleared, last_event,
                   last_correction, closed, cacheVars>>

\* RunKeyPress, had it ended the loop on every failure of the handling
RunKeyPress_AbortsOnAnyFailure ==
    /\ pc = "events"
    /\ ~settings.test_mode
    /\ \E key \in Keys, cond \in Conds, v \in ViewInputs :
         LET r == handle_key_event(state, key, cond, v.zoom, v.data)
         IN  /\ state' = r.state
             /\ last_event' = "key:" \o runs_into(state, key, cond)
             /\ IF r.ok /\ runs_into(state, key, cond) = "ok"
                THEN pc' = "refresh" /\ UNCHANGED result
                ELSE Return("Err")
    /\ steps' = steps \o <<"read", "dispatch">>
    /\ UNCHANGED <<settings, frame_area, last_frame_mode, termVars, iters,
                   rendered, cleared, last_correction, closed, cacheVars>>

\* lines 63-65: a key press is handed to the controller
RunKeyPress ==
    /\ pc = "events"
    /\ ~settings.test_mode
    /\ \E key \in Keys, cond \in Conds, v \in ViewInputs :
         LET r == handle_key_event(state, key, cond, v.zoom, v.data)
         IN  /\ state' = r.state
             /\ last_event' = "key:" \o runs_into(state, key, cond)
             /\ IF r.ok
                THEN pc' = "refresh" /\ UNCHANGED result
                ELSE Return("Err")
    /\ steps' = steps \o <<"read", "dispatch">>
    /\ UNCHANGED <<settings, frame_area, last_frame_mode, termVars, iters,
                   rendered, cleared, last_correction, closed, cacheVars>>

\* lines 66-68: a resize notification
RunResize ==
    /\ pc = "events"
    /\ ~settings.test_mode
    /\ resize_pending > 0
    /\ resize_pending' = resize_pending - 1
    /\ state' = self_correct_viewing_window(state)
    /\ last_correction' = IF state.frame_area = term_size THEN "current" ELSE "stale"
    /\ last_event' = "resize"
    /\ steps' = steps \o <<"read", "dispatch">>
    /\ pc' = "refresh"
    /\ UNCHANGED <<settings, result, frame_area, last_frame_mode, term_size,
                   viewport, resizes, iters, rendered, cleared, closed, cacheVars>>

\* RunOtherEvent, had the loop gone on reading after an event it ignores
RunOtherEvent_ReadsAgain ==
    /\ pc = "events"
    /\ ~settings.test_mode
    /\ last_event' = "other"
    /\ steps' = Append(steps, "read")
    /\ pc' = "events"
    /\ UNCHANGED <<settings, state, result, frame_area, last_frame_mode,
                   termVars, iters, rendered, cleared, last_correction, closed, cacheVars>>

\* RunOtherEvent, had a key event of any kind been handed to the controller
RunOtherEvent_HandlesAnyKeyKind ==
    /\ pc = "events"
    /\ ~settings.test_mode
    /\ \E key \in Keys, v \in ViewInputs :
         state' = handle_key_event(state, key, "ok", v.zoom, v.data).state
    /\ last_event' = "other"
    /\ steps' = Append(steps, "read")
    /\ pc' = "refresh"
    /\ UNCHANGED <<settings, result, frame_area, last_frame_mode,
                   termVars, iters, rendered, cleared, last_correction, closed, cacheVars>>

\* line 70: any other event, or a failed read
RunOtherEvent ==
    /\ pc = "events"
    /\ ~settings.test_mode
    /\ last_event' = "other"
    /\ steps' = Append(steps, "read")
    /\ pc' = "refresh"
    /\ UNCHANGED <<settings, state, result, frame_area, last_frame_mode,
                   termVars, iters, rendered, cleared, last_correction, closed, cacheVars>>

\* need_screen_refresh, had it compared the modes themselves
need_screen_refresh_on_any_mode_change ==
    \/ last_frame_mode # state.input_mode
    \/ frame_area.width # viewport.width
    \/ frame_area.height # viewport.height

\* lines 75-80
need_screen_refresh ==
    \/ (last_frame_mode = "Help" /\ state.input_mode # "Help")
    \/ (last_frame_mode # "Help" /\ state.input_mode = "Help")
    \/ frame_area.width # viewport.width
    \/ frame_area.height # viewport.height

\* lines 75-84
RunRefresh ==
    /\ pc = "refresh"
    /\ cleared' = need_screen_refresh
    /\ pc' = "last"
    /\ UNCHANGED <<settings, state, result, frame_area, last_frame_mode,
                   termVars, iters, steps, rendered, last_event,
                   last_correction, closed, cacheVars>>

\* RunEndIteration without the break of test mode
RunEndIteration_NoBreak ==
    /\ pc = "last"
    /\ last_frame_mode' = state.input_mode
    /\ pc' = "while"
    /\ UNCHANGED <<settings, state, result, frame_area, termVars, iters, steps,
                   rendered, cleared, last_event, last_correction, closed, cacheVars>>

\* RunEndIteration, had it not recorded the mode of the frame
RunEndIteration_KeepsLastMode ==
    /\ pc = "last"
    /\ IF settings.test_mode
       THEN Return("Ok")
       ELSE pc' = "while" /\ UNCHANGED result
    /\ UNCHANGED <<settings, state, frame_area, last_frame_mode, termVars,
                   iters, steps, rendered, cleared, last_event,
                   last_correction, closed, cacheVars>>

\* lines 86-91
RunEndIteration ==
    /\ pc = "last"
    /\ last_frame_mode' = state.input_mode
    /\ IF settings.test_mode
       THEN Return("Ok")
       ELSE pc' = "while" /\ UNCHANGED result
    /\ UNCHANGED <<settings, state, frame_area, termVars, iters, steps,
                   rendered, cleared, last_event, last_correction, closed, cacheVars>>

\* App::close, lines 104-107: called by the owner of the App once run has
\* returned (run holds the only mutable borrow while it runs)
AppClose ==
    /\ pc = "returned"
    /\ ~closed
    /\ closed' = TRUE
    /\ UNCHANGED <<settings, state, pc, result, frame_area, last_frame_mode,
                   termVars, iters, steps, rendered, cleared, last_event,
                   last_correction, cacheVars>>

\* The user resizes the terminal while the program runs; a Resize event is
\* queued for event::read
ResizeTerminal ==
    /\ pc \notin {"returned", "panicked"}
    /\ ~settings.test_mode
    /\ resizes < MaxResizes
    /\ \E size \in Sizes \ {term_size} : term_size' = size
    /\ resizes' = resizes + 1
    /\ resize_pending' = resize_pending + 1
    /\ UNCHANGED <<settings, state, pc, result, frame_area, last_frame_mode,
                   viewport, iters, steps, rendered, cleared, last_event,
                   last_correction, closed, cacheVars>>

Next ==
    \/ RunWhile
    \/ RunUpdateFrameArea
    \/ RunInitialize
    \/ RunDraw
    \/ RunSkipEvents
    \/ RunKeyPress
    \/ RunResize
    \/ RunOtherEvent
    \/ RunRefresh
    \/ RunEndIteration
    \/ AppClose
    \/ ResizeTerminal

Spec == Init /\ [][Next]_vars


----------------------------------------------------------------------------
(* Widget::render called on its own, for any controller and any area *)

\* every controller a caller can hand to render, initialized or not
RenderStates ==
    { [NewState EXCEPT !.window = w, !.contig = c, !.cytobands = b,
                       !.input_mode = m, !.zoom = z, !.data = d] :
        w \in {None, Some(ZeroArea)}, c \in BOOLEAN, b \in BOOLEAN,
        m \in InputMode, z \in Zooms, d \in SUBSET Kinds }

InitRender ==
    /\ settings \in [ test_mode : {TRUE},
                      initial_state_messages : {<<>>},
                      bam_path : BOOLEAN,
                      reference : BOOLEAN ]
    /\ state \in RenderStates
    /\ pc = "render"
    /\ result = "none"
    /\ frame_area = ZeroArea
    /\ last_frame_mode = "Normal"
    /\ term_size \in Sizes
    /\ viewport = term_size
    /\ resizes = 0
    /\ resize_pending = 0
    /\ iters = 0
    /\ steps = <<>>
    /\ rendered = Nothing
    /\ cleared = FALSE
    /\ last_event = "none"
    /\ last_correction = "none"
    /\ closed = FALSE
    /\ cache = NewCache
    /\ fetches = NoFetches

\* how a frame came out
Outcome(r) ==
    IF r.panic THEN "panic" ELSE IF r.bands = {} THEN "nothing" ELSE "painted"

\* frame.render_widget(app, area): one call of render; steps keeps how the
\* frames came out
RenderFrame ==
    /\ pc = "render"
    /\ rendered' = render(state, settings, viewport)
    /\ steps' = Append(steps, Outcome(rendered'))
    /\ IF rendered'.panic
       THEN pc' = "panicked" /\ result' = "Panic"
       ELSE pc' = "rendered" /\ UNCHANGED result
    /\ UNCHANGED <<settings, state, frame_area, last_frame_mode, termVars,
                   iters, cleared, last_event, last_correction, closed, cacheVars>>

\* the area of the next frame differs from the last one's
ResizeFrame ==
    /\ pc = "rendered"
    /\ resizes < MaxResizes
    /\ \E size \in Sizes \ {term_size} : term_size' = size /\ viewport' = size
    /\ resizes' = resizes + 1
    /\ pc' = "render"
    /\ UNCHANGED <<settings, state, result, frame_area, last_frame_mode,
                   resize_pending, iters, steps, rendered, cleared,
                   last_event, last_correction, closed, cacheVars>>

NextRender ==
    \/ RenderFrame
    \/ ResizeFrame

SpecRender == InitRender /\ [][NextRender]_vars

----------------------------------------------------------------------------
(* The cache under viewport changes and fetches that return in any order *)

InitCache ==
    /\ settings \in [ test_mode : {TRUE},
                      initial_state_messages : {<<>>},
                      bam_path : {TRUE},
                      reference : {TRUE} ]
    /\ state = NewState
    /\ pc = "cache"
    /\ result = "none"
    /\ frame_area = ZeroArea
    /\ last_frame_mode = "Normal"
    /\ term_size \in {CHOOSE size \in Sizes : TRUE}
    /\ viewport = term_size
    /\ resizes = 0
    /\ resize_pending = 0
    /\ iters = 0
    /\ steps = <<>>
    /\ rendered = Nothing
    /\ cleared = FALSE
    /\ last_event = "none"
    /\ last_correction = "none"
    /\ closed = FALSE
    /\ cache = NewCache
    /\ fetches = NoFetches

\* A viewport-changing operation (pan, zoom, jump): the generation is
\* bumped, and for every Kind whose slot does not satisfy the new region a
\* fetch of the new generation is registered and started.  covered are the
\* Kinds whose payload still covers the new region.
ChangeViewport ==
    /\ pc = "cache"
    /\ cache.generation < MaxGeneration
    /\ \E covered \in SUBSET FetchKinds :
         LET g == cache.generation + 1
             need == {k \in FetchKinds : needs_fetch(cache, k, k \in covered)}
             requests == {Request(k, g) : k \in need}
         IN  /\ cache' =
                  [cache EXCEPT
                     !.generation = g,
                     !.latest = [k \in FetchKinds |->
                                   IF k \in need
                                   THEN record_fetch_started(cache, Request(k, g)).latest[k]
                                   ELSE cache.latest[k]]]
             /\ fetches' = [fetches EXCEPT !.inflight = @ \cup requests,
                                           !.registered = @ \cup requests]
    /\ UNCHANGED <<settings, state, pc, result, frame_area, last_frame_mode,
                   termVars, iters, steps, rendered, cleared, last_event,
                   last_correction, closed>>

\* A fetch in flight returns, with its payload or with a failure, and its
\* result is applied to the cache in one step
FetchReturns ==
    /\ pc = "cache"
    /\ \E request \in fetches.inflight, ok \in BOOLEAN :
         /\ cache' = apply_fetch_result(cache, request, ok)
         /\ fetches' = [fetches EXCEPT
                          !.inflight = @ \ {request},
                          !.succeeded = IF ok THEN @ \cup {request} ELSE @]
    /\ UNCHANGED <<settings, state, pc, result, frame_area, last_frame_mode,
                   termVars, iters, steps, rendered, cleared, last_event,
                   last_correction, closed>>

NextCache ==
    \/ ChangeViewport
    \/ FetchReturns

SpecCache == InitCache /\ [][NextCache]_vars

----------------------------------------------------------------------------
(* The claims *)

StepSet == {steps[i] : i \in DOMAIN steps}
Count(x) == Cardinality({i \in DOMAIN steps : steps[i] = x})
IsPrefix(a, b) == Len(a) <= Len(b) /\ \A i \in DOMAIN a : a[i] = b[i]
LastStep == IF steps = <<>> THEN "none" ELSE steps[Len(steps)]
Messages == settings.initial_state_messages
Has(op) == \E i \in DOMAIN Messages : Messages[i] = op
TooSmall(a) == a.width < MIN_AREA_WIDTH \/ a.height < MIN_AREA_HEIGHT

\* C1: App::draw is never invoked while state.initialized() is false,
\* whatever the initial_state_messages are.
C1_DrawOnlyWhenInitialized ==
    "draw" \in StepSet => initialized(state)

\* C2: once the exit flag is set, run does not return before state.close
\* has been performed.
C2_CloseBeforeReturn ==
    (pc = "returned" /\ state.exit) => closed

\* C3: a startup operation that fails never makes run return Err: when the
\* startup operations have been handled, run goes on and the failure is in
\* the ErrorLog.
C3_StartupFailureIsLogged ==
    LastStep = "init" =>
        /\ result # "Err"
        /\ (Has("bad") \/ Has("fatal")) => state.errors # <<>>

\* C4: a key event whose handling hits a recoverable condition leaves run
\* running (through the next draw, until the next event is read) with the
\* condition as the newest ErrorLog entry; run returns Err only for a Fatal
\* error, of a key event or of a startup operation.
C4_RecoverableKeyKeepsRunning ==
    /\ last_event = "key:recoverable" =>
          /\ result = "none"
          /\ state.errors # <<>>
          /\ state.errors[Len(state.errors)] \in {"user", "data"}
    /\ result = "Err" =>
          \/ last_event = "key:fatal"
          \/ (LastStep = "init" /\ Has("fatal"))

C4_Witness ==
    /\ last_event = "key:recoverable"
    /\ pc = "events"
    /\ steps = <<"area", "draw">>

\* C5: in test mode run never reads an event and never starts a second
\* iteration, and once the frame of its one iteration is drawn it returns Ok
\* with exactly that one frame drawn; in non-test mode every iteration has
\* read exactly one event when it ends, and none before its frame is drawn.
C5_OneIterationInTestMode ==
    /\ settings.test_mode =>
          /\ "read" \notin StepSet
          /\ last_event = "none"
          /\ iters <= 1
          /\ Count("draw") <= 1
          /\ (pc = "returned" /\ "draw" \in StepSet) => result = "Ok"
          /\ result = "Ok" => (iters = 1 /\ Count("draw") = 1)
    /\ ~settings.test_mode =>
          /\ pc \in {"refresh", "last"} => Count("read") = 1
          /\ (pc = "while" /\ iters > 0) => Count("read") = 1
          /\ pc \in {"area", "init", "draw", "events"} => Count("read") = 0

C5_Witness ==
    /\ settings.test_mode
    /\ result = "Ok"
    /\ steps = <<"area", "init", "draw">>

\* C6: after a Resize event the window is corrected against the new frame
\* size: the frame area the controller has recorded equals the terminal's
\* area when self_correct_viewing_window runs, or at the latest when the
\* next frame has been drawn.
C6_ResizeCorrectsAgainstNewArea ==
    (last_event = "resize" /\ "draw" \in StepSet /\ "read" \notin StepSet) =>
        \/ last_correction = "current"
        \/ state.frame_area = viewport

\* C7 as stated: terminal.clear is called at the end of an iteration
\* exactly when the input mode differs from the previous frame's or the frame
\* width or height changed during the iteration.
C7_ClearOnAnyModeChange ==
    pc = "last" =>
        (cleared <=> (last_frame_mode # state.input_mode \/ frame_area # viewport))

\* C7 as amended: terminal.clear is called at the end of an iteration
\* exactly when the input mode changed into or out of Help since the previous
\* frame or the frame width or height changed during the iteration, and
\* nowhere else in the iteration.
C7_ClearOnHelpOrSizeChange ==
    /\ pc = "last" =>
          (cleared <=> \/ (last_frame_mode = "Help") # (state.input_mode = "Help")
                       \/ frame_area # viewport)
    /\ pc \in {"area", "init", "draw", "events", "refresh"} => ~cleared

C7_Witness ==
    /\ pc = "last"
    /\ ~cleared
    /\ last_frame_mode = "Normal"
    /\ state.input_mode = "Command"

\* C8: render of an area narrower than 10 or lower than 6 paints nothing
\* and does not panic, in every input mode and for every controller, with or
\* without contig context; at an area of at least 10x6 a controller in Help
\* mode or with contig context is painted, also right after a frame that was
\* too small.
C8_SmallAreaRendersNothing ==
    pc \in {"rendered", "panicked"} =>
        /\ TooSmall(viewport) => (rendered = Nothing /\ pc = "rendered")
        /\ (/\ ~TooSmall(viewport)
            /\ state.input_mode = "Help" \/ (state.contig /\ initialized(state)))
              => Outcome(rendered) = "painted"

C8_Witness ==
    /\ ~state.contig
    /\ steps = <<"nothing", "painted">>

\* C9: drawing a frame (App::draw with Widget::render) changes nothing of
\* the controller: state, with viewport, payloads, input mode, command
\* register, error log and exit flag, and the settings are the same after
\* the draw as before it.
C9_DrawLeavesStateUnchanged ==
    [][(pc = "draw" /\ pc' # "draw") => (state' = state /\ settings' = settings)]_vars

C9_Witness ==
    /\ pc = "events"
    /\ LastStep = "draw"
    /\ rendered = Nothing
    /\ state.errors # <<>>

\* C10: the steps of an iteration come in the order frame area update,
\* initialization (of an uninitialized controller only), one draw, at most
\* one event read, dispatch of that event; an iteration that has ended has
\* drawn exactly once and, outside test mode, read exactly once.
C10_IterationOrder ==
    /\ \/ IsPrefix(steps, <<"area", "init", "draw", "read", "dispatch">>)
       \/ IsPrefix(steps, <<"area", "draw", "read", "dispatch">>)
    /\ "init" \in StepSet => iters = 1
    /\ (pc \in {"refresh", "last"} \/ (pc = "while" /\ iters > 0)) =>
          /\ Count("draw") = 1
          /\ Count("read") = IF settings.test_mode THEN 0 ELSE 1

C10_Witness ==
    /\ pc = "refresh"
    /\ steps = <<"area", "init", "draw", "read", "dispatch">>

\* C12: once the dispatch of an event has set state.exit, run draws no
\* further frame, reads no further event and dispatches nothing more, and the
\* only way it leaves the loop test is by returning Ok(()); outside test mode
\* run returns Ok only with the exit flag set.
C12_ExitEndsTheLoop ==
    /\ [](state.exit =>
            /\ pc \in {"refresh", "last", "while", "returned"}
            /\ result \in {"none", "Ok"}
            /\ steps = <<"area", "draw", "read", "dispatch">>
                 \/ steps = <<"area", "init", "draw", "read", "dispatch">>
            /\ last_event = "key:ok")
    /\ []((pc = "returned" /\ result = "Ok" /\ ~settings.test_mode) => state.exit)
    /\ [][state.exit =>
            /\ steps' = steps
            /\ state' = state
            /\ rendered' = rendered
            /\ last_event' = last_event
            /\ (pc = "while" /\ pc' # "while") => (pc' = "returned" /\ result' = "Ok")]_vars

C12_Witness ==
    /\ state.exit
    /\ pc = "returned"
    /\ result = "Ok"
    /\ iters = 2

\* C13: when an iteration ends last_frame_mode equals state.input_mode, and
\* stays so until the next event is dispatched; hence the iteration after a
\* transition into or out of Help, if it leaves the mode and the frame size
\* as they are, does not clear, the iteration of the transition clears, and
\* an iteration that goes from Normal to Command or back at an unchanged
\* frame size does not clear.
C13_LastFrameModeFollowsInputMode ==
    /\ (iters > 0 /\ pc = "while") => last_frame_mode = state.input_mode
    /\ (pc = "returned" /\ result = "Ok") => last_frame_mode = state.input_mode
    /\ pc \in {"area", "init", "draw", "events"} => last_frame_mode = state.input_mode
    /\ pc = "last" =>
          /\ (last_frame_mode = "Help") # (state.input_mode = "Help") => cleared
          /\ (last_frame_mode = state.input_mode /\ frame_area = viewport) => ~cleared
          /\ (/\ {last_frame_mode, state.input_mode} = {"Normal", "Command"}
              /\ frame_area = viewport) => ~cleared

C13_Witness ==
    /\ pc = "last"
    /\ iters = 2
    /\ last_frame_mode = "Help"
    /\ state.input_mode = "Help"
    /\ ~cleared

\* C19: of the events read in run only a key press reaches handle_key_event;
\* a Resize event does nothing but self_correct_viewing_window, which leaves
\* everything of the controller but the viewing window as it is; any other
\* event (key release or repeat, mouse, focus, paste, read error) leaves the
\* controller unchanged; neither a Resize nor any other event ends the loop.
C19_EventDispatch ==
    [][(pc = "events" /\ steps' # steps) =>
         /\ last_event' \in {"key:ok", "key:recoverable", "key:fatal", "resize", "other"}
         /\ last_event' = "other" =>
               /\ state' = state
               /\ pc' = "refresh" /\ result' = "none"
               /\ steps' = Append(steps, "read")
         /\ last_event' = "resize" =>
               /\ state' = [state EXCEPT !.window = state'.window]
               /\ pc' = "refresh" /\ result' = "none"
         /\ (pc' = "returned" \/ state'.exit # state.exit
               \/ state'.input_mode # state.input_mode
               \/ state'.command_register # state.command_register
               \/ state'.errors # state.errors
               \/ state'.data # state.data) =>
               last_event' \in {"key:ok", "key:recoverable", "key:fatal"}]_vars

C19_Witness ==
    /\ last_event = "other"
    /\ pc = "refresh"
    /\ steps = <<"area", "draw", "read">>
    /\ state.input_mode = "Command"

\* a frame of sufficient size that is not the help screen, rendered for a
\* controller that has its contig context
NonHelpFrame ==
    /\ pc \in {"rendered", "panicked"}
    /\ ~TooSmall(viewport)
    /\ state.input_mode # "Help"
    /\ state.contig /\ initialized(state)

\* C14: in a non-Help frame of sufficient size coverage and alignment are
\* rendered exactly when bam_path is configured, the zoom is at most
\* MAX_ZOOM_TO_DISPLAY_ALIGNMENTS and an alignment payload is cached; the two
\* are rendered together or not at all.
C14_CoverageAndAlignmentTogether ==
    NonHelpFrame =>
        /\ "coverage" \in rendered.bands <=>
              /\ settings.bam_path
              /\ state.zoom <= MAX_ZOOM_TO_DISPLAY_ALIGNMENTS
              /\ "alignment" \in state.data
        /\ "coverage" \in rendered.bands <=> "alignment" \in rendered.bands

C14_Witness ==
    /\ NonHelpFrame
    /\ state.zoom = MAX_ZOOM_TO_DISPLAY_ALIGNMENTS
    /\ {"coverage", "alignment"} \subseteq rendered.bands

\* C15: in a non-Help frame of sufficient size at most one routine draws
\* the sequence band: render_sequence exactly when a reference is configured,
\* the window is base-wise and a sequence payload is cached;
\* render_sequence_at_2x exactly when a reference is configured, the window is
\* not base-wise, the zoom is 2 and a sequence payload is cached; at any other
\* zoom neither.
C15_OneSequenceRoutine ==
    NonHelpFrame =>
        /\ "sequence" \in rendered.bands <=>
              /\ settings.reference
              /\ is_basewise(state.zoom)
              /\ "sequence" \in state.data
        /\ "sequence_at_2x" \in rendered.bands <=>
              /\ settings.reference
              /\ ~is_basewise(state.zoom)
              /\ state.zoom = 2
              /\ "sequence" \in state.data
        /\ ~({"sequence", "sequence_at_2x"} \subseteq rendered.bands)
        /\ (~is_basewise(state.zoom) /\ state.zoom # 2) =>
              rendered.bands \cap {"sequence", "sequence_at_2x"} = {}

C15_Witness ==
    /\ NonHelpFrame
    /\ state.zoom = 2
    /\ "sequence_at_2x" \in rendered.bands
    /\ "sequence" \notin rendered.bands

\* the bands painted from the payload of a Kind
BandsOf(kind) ==
    CASE kind = "alignment" -> {"coverage", "alignment"}
      [] kind = "sequence" -> {"sequence", "sequence_at_2x"}
      [] OTHER -> {"track"}

\* C16: in a non-Help frame of sufficient size for a controller with contig
\* context render does not panic whichever payloads are absent, the
\* coordinate band and the error band are rendered, and the bands of an
\* absent payload, and only those, are left out: the bands of a payload that
\* is cached are the same as with every payload cached.
C16_AbsentPayloadOmitsOwnBand ==
    NonHelpFrame =>
        /\ pc = "rendered"
        /\ ~rendered.panic
        /\ {"coordinates", "error"} \subseteq rendered.bands
        /\ \A kind \in Kinds \ state.data : rendered.bands \cap BandsOf(kind) = {}
        /\ \A kind \in state.data :
              rendered.bands \cap BandsOf(kind) =
                  render([state EXCEPT !.data = Kinds], settings, viewport).bands
                      \cap BandsOf(kind)

C16_Witness ==
    /\ NonHelpFrame
    /\ state.data = {}
    /\ settings.bam_path /\ settings.reference
    /\ state.zoom = 1
    /\ rendered.bands = {"coordinates", "error"}

\* C17: in a non-Help frame of sufficient size a cached track payload is
\* rendered exactly when a reference is configured, and no track band is
\* rendered without a cached track payload.
C17_TrackNeedsReference ==
    NonHelpFrame =>
        /\ "track" \in state.data =>
              ("track" \in rendered.bands <=> settings.reference)
        /\ "track" \in rendered.bands => "track" \in state.data

C17_Witness ==
    /\ NonHelpFrame
    /\ "track" \in state.data
    /\ ~settings.reference
    /\ "track" \notin rendered.bands
    /\ "error" \in rendered.bands

\* C18: in Help mode at a sufficient area render paints the help overlay and
\* nothing else and does not panic, whatever the contig context, the window
\* and the payloads are, also with none of them; the console is painted only
\* in Command mode, and in every painted frame of Command mode; the help
\* overlay is painted only in Help mode; no frame has both.
C18_OverlayFollowsInputMode ==
    pc \in {"rendered", "panicked"} =>
        /\ (state.input_mode = "Help" /\ ~TooSmall(viewport)) =>
              (pc = "rendered" /\ rendered = [bands |-> {"help"}, panic |-> FALSE])
        /\ "help" \in rendered.bands => state.input_mode = "Help"
        /\ "console" \in rendered.bands => state.input_mode = "Command"
        /\ (state.input_mode = "Command" /\ Outcome(rendered) = "painted") =>
              "console" \in rendered.bands
        /\ ~({"help", "console"} \subseteq rendered.bands)

C18_Witness ==
    /\ pc = "rendered"
    /\ state.input_mode = "Help"
    /\ ~state.contig /\ ~initialized(state)
    /\ state.data = {}
    /\ rendered.bands = {"help"}

\* the newest generation registered for a Kind, 0 if none
Newest(kind) ==
    LET gens == {r.generation : r \in {q \in fetches.registered : q.kind = kind}}
    IN  IF gens = {} THEN 0 ELSE CHOOSE g \in gens : \A h \in gens : h <= g

\* C11: a fetch that returns after a newer generation has been registered
\* for its Kind (whether or not the newer fetch has returned) changes nothing
\* of the cache; the payload a slot holds comes from a fetch that returned
\* with success; and once the fetch of the newest generation registered for
\* a Kind has returned with success, the slot holds its payload, whichever
\* older fetches return afterwards.
C11_StaleFetchIsDiscarded ==
    /\ [](\A k \in FetchKinds :
            cache.slot[k] # 0 => Request(k, cache.slot[k]) \in fetches.succeeded)
    /\ [](\A r \in fetches.succeeded :
            r.generation = Newest(r.kind) => cache.slot[r.kind] = r.generation)
    /\ [][\A r \in fetches.inflight \ fetches'.inflight :
            (\E q \in fetches.registered :
                q.kind = r.kind /\ q.generation > r.generation) => cache' = cache]_vars

\* two viewport changes before either fetch returns, then the first fetch
\* returns with its payload: the slot is still empty
C11_Witness ==
    \E k \in FetchKinds :
        /\ Request(k, 1) \in fetches.succeeded
        /\ Request(k, 2) \in fetches.inflight
        /\ cache.slot[k] = 0
        /\ cache.generation = 2

====
